---- MODULE Spec2Model ----
(***************************************************************************)
(* Model of Cell_Status.py: the battery-cell task simulator               *)
(* (get_cell_data, process_task_on_cell) and the Streamlit script that    *)
(* drives it (Start / Stop handling and the run loop over                 *)
(* st.session_state).                                                     *)
(*                                                                         *)
(* Numbers.  The widgets format voltages and currents with two decimals   *)
(* and the code rounds capacity and temperature to two decimals, so every *)
(* quantity is an integer number of hundredths (3.3 V = 330, -5.0 A =     *)
(* -500, 20.0 degrees = 2000).  A product voltage * current is an integer *)
(* number of ten-thousandths.                                             *)
(***************************************************************************)
EXTENDS Integers, Sequences, FiniteSets, TLC

\* ------------------------------------------------------------------------
\* Bounds of the model
\* ------------------------------------------------------------------------
\* most cells the sidebar configures in the model (the widget allows 1..6)
MaxCells == 2
\* longest task sequence selected in the model (the multiselect allows 0..4)
MaxTasks == 2
\* progress_count at which the model stops stepping
MaxProgress == 4
\* script executions (Start, Stop, other re-executions) in one behaviour
MaxRuns == 3
\* temperature window (hundredths) outside which the cell model stops
\* heating, respectively cooling
MaxTemp == 4200
MinTemp == 1800

\* ------------------------------------------------------------------------
\* Program constants
\* ------------------------------------------------------------------------
task_list == <<"CHARGE", "DISCHARGE", "IDLE", "OPTIMIZING">>
Tasks == {task_list[i] : i \in 1..Len(task_list)}
CellTypes == {"LFP", "NMC"}

\* number_input bounds of the voltage and of the current setpoint
WidgetMinV == 250
WidgetMaxV == 440
WidgetMinC == -500
WidgetMaxC == 500
\* the floor of the temperature in IDLE
TempFloor == 2000
\* CHARGE adds 0.2 V to the setpoint, DISCHARGE takes 0.1 V off
ChargeBoost == 20
DischargeDrop == 10

\* random.uniform(25, 40) rounded to one decimal: the draws kept in the model
InitTemps == {2500, 4000}
\* random.uniform(a, b) added to a two-decimal temperature and rounded to two
\* decimals moves it by a whole number of hundredths in a..b: the end points
\* (and 0 for OPTIMIZING) are the draws kept in the model.  IDLE subtracts.
Draws(task) ==
    CASE task = "CHARGE" -> {30, 90}
      [] task = "DISCHARGE" -> {40, 110}
      [] task = "IDLE" -> {10, 30}
      [] task = "OPTIMIZING" -> {-50, 0, 50}
      [] OTHER -> {0}

\* the draws the script model makes: the lowest of each range
StartTemps == {2500}
StepDraws(task) == {CHOOSE u \in Draws(task) : \A w \in Draws(task) : u <= w}

Abs(x) == IF x < 0 THEN -x ELSE x
Min(a, b) == IF a <= b THEN a ELSE b
Max(a, b) == IF a >= b THEN a ELSE b

\* round(p, 2) of a non-negative product p given in ten-thousandths, as
\* hundredths; an exact tie goes to the even neighbour as Python's round does
Round2(p) ==
    LET q == p \div 100
        r == p % 100
    IN  IF r < 50 THEN q
        ELSE IF r > 50 THEN q + 1
        ELSE IF q % 2 = 0 THEN q ELSE q + 1

ChemBounds(cell_type) ==
    IF cell_type = "LFP" THEN <<280, 360>> ELSE <<320, 400>>

\* get_cell_data(cell_type, voltage, current); temp is the random draw
get_cell_data(cell_type, voltage, current, temp) ==
    [ type |-> cell_type,
      voltage |-> voltage,
      current |-> current,
      temp |-> temp,
      capacity |-> Round2(voltage * Abs(current)),
      min_voltage |-> ChemBounds(cell_type)[1],
      max_voltage |-> ChemBounds(cell_type)[2] ]

\* CHARGE without the clamp to max_voltage
ChargeVoltage_unclamped(cell_data, user_voltage) == user_voltage + ChargeBoost

ChargeVoltage(cell_data, user_voltage) ==
    Min(cell_data.max_voltage, user_voltage + ChargeBoost)

DischargeVoltage(cell_data, user_voltage) ==
    Max(cell_data.min_voltage, user_voltage - DischargeDrop)

\* IDLE without the 20.0 floor
IdleTemp_nofloor(temp, u) == temp - u

\* IDLE adding the draw instead of subtracting it
IdleTemp_heats(temp, u) == Max(TempFloor, temp + u)

IdleTemp(temp, u) == Max(TempFloor, temp - u)

\* the capacity without abs(), as line 44 has it, where the current is negative
Capacity_signed(voltage, current) == Round2(voltage * current)

\* the capacity an application stores, from the voltage and current it set
Capacity(voltage, current) == Round2(voltage * Abs(current))

\* process_task_on_cell(task, cell_data, user_voltage, user_current); u is the
\* random draw.  A task outside the four branches leaves the cell as it is.
process_task_on_cell(task, cell_data, user_voltage, user_current, u) ==
    CASE task = "CHARGE" ->
           LET c == Abs(user_current)
               v == ChargeVoltage(cell_data, user_voltage)
           IN  [cell_data EXCEPT !.current = c, !.voltage = v,
                                 !.capacity = Capacity(v, c),
                                 !.temp = @ + u]
      [] task = "DISCHARGE" ->
           LET c == -Abs(user_current)
               v == DischargeVoltage(cell_data, user_voltage)
           IN  [cell_data EXCEPT !.current = c, !.voltage = v,
                                 !.capacity = Capacity(v, c),
                                 !.temp = @ + u]
      [] task = "IDLE" ->
           [cell_data EXCEPT !.current = 0, !.temp = IdleTemp(@, u)]
      [] task = "OPTIMIZING" ->
           [cell_data EXCEPT !.voltage = user_voltage,
                             !.current = user_current,
                             !.capacity = Capacity(user_voltage, user_current),
                             !.temp = @ + u]
      [] OTHER -> cell_data


\* ------------------------------------------------------------------------
\* State
\* ------------------------------------------------------------------------
VARIABLES
    \* st.session_state
    run_started, cells_data, task_timings, history, progress_count,
    \* time.perf_counter() - overall_start, in clock readings since Start
    elapsed,
    \* the sidebar widgets as the running script execution read them
    num_cells, cell_types, selected_tasks, task_inputs, start_btn, stop_btn,
    \* the setpoint profile the number inputs hold
    setpoints,
    \* where the script execution is: "idle" (run loop not entered), "loop"
    \* (at the top of iteration (t_idx, c_idx)), "done" (loop finished),
    \* "error" (ended by an exception); t_idx and c_idx are 1-based
    pc, t_idx, c_idx,
    \* the steps the current execution of the run loop has applied, in order
    run_log,
    \* script executions so far
    runs,
    \* the single cell of the task-simulator specification, and the last
    \* application made to it
    cell, last_task

session == <<run_started, cells_data, task_timings, history, progress_count,
             elapsed>>
widgets == <<num_cells, cell_types, selected_tasks, task_inputs, start_btn,
             stop_btn, setpoints>>
script == <<pc, t_idx, c_idx, run_log, runs>>
appvars == <<session, widgets, script>>
cellvars == <<cell, last_task>>
vars == <<appvars, cellvars>>

\* the empty dict
EmptyDict == [k \in {} |-> 0]

\* f"Cell_{i+1}_{ctype}"
CellKey(i, ctype) == <<i, ctype>>
ConfigKeys(n, types) == {CellKey(i, types[i]) : i \in 1..n}

\* ------------------------------------------------------------------------
\* The sidebar: the configurations a script execution can read
\* ------------------------------------------------------------------------
\* a multiselect returns each option at most once, in the order selected
SelectedSeqs ==
    {s \in UNION {[1..n -> Tasks] : n \in 0..MaxTasks} :
        \A i, j \in DOMAIN s : i # j => s[i] # s[j]}

\* the setpoints typed into the number inputs: the widgets' defaults, or the
\* lowest value the widgets accept
Profiles == {"default", "low"}

DefaultV(ctype) == IF ctype = "LFP" THEN 330 ELSE 360
DefaultC(t) ==
    IF t = "CHARGE" THEN 100
    ELSE IF t = "DISCHARGE" THEN -100
    ELSE IF t = "IDLE" THEN 0 ELSE 100

SetpointV(profile, ctype) ==
    CASE profile = "default" -> DefaultV(ctype)
      [] profile = "low" -> WidgetMinV

SetpointC(profile, t) ==
    CASE profile = "default" -> DefaultC(t)
      [] profile = "low" -> WidgetMinC

\* task_inputs[t] = {"voltage": v_dict, "current": c_dict}, keyed by cell key
TaskInputs(sel, n, types, profile) ==
    [t \in {sel[i] : i \in DOMAIN sel} |->
        [ voltage |-> [k \in ConfigKeys(n, types) |-> SetpointV(profile, k[2])],
          current |-> [k \in ConfigKeys(n, types) |-> SetpointC(profile, t)] ]]

\* a sidebar configuration: <<num_cells, cell_types, selected_tasks, profile>>
Configs ==
    UNION {
        {<<n, types, sel, p>> :
            types \in [1..n -> CellTypes], sel \in SelectedSeqs, p \in Profiles}
        : n \in 1..MaxCells}

\* the sidebar a first Start can find: any number of cells and any task
\* selection, the selectboxes and the number inputs still at their defaults
InitConfigs ==
    {cfg \in Configs :
        cfg[4] = "default" /\ \A i \in DOMAIN cfg[2] : cfg[2][i] = "LFP"}

\* ------------------------------------------------------------------------
\* The script: one execution per user interaction
\* ------------------------------------------------------------------------
\* the keys of cells_data in insertion order: Start inserts cell i as the
\* i-th key, so the i-th key is the one that names cell i
KeyAt(i) == CHOOSE k \in DOMAIN cells_data : k[1] = i
NumKeys == Cardinality(DOMAIN cells_data)

\* the cells Start creates: one per configured cell, from the first task's
\* setpoints; temps[i] is cell i's temperature draw
StartCells(n, types, sel, inputs, temps) ==
    LET first_task == sel[1]
    IN  [k \in ConfigKeys(n, types) |->
            get_cell_data(k[2],
                          inputs[first_task].voltage[k],
                          inputs[first_task].current[k],
                          temps[k[1]])]

\* the run loop has an iteration to execute: for task in selected_tasks,
\* for key in cells_data
LoopEntered(sel, cells) == Len(sel) > 0 /\ DOMAIN cells # {}

\* the loops nested the other way round: cells outside, tasks inside
NextIndex_cell_major(t, c, ntasks, ncells) ==
    IF t < ntasks THEN <<t + 1, c>> ELSE <<1, c + 1>>

\* the iteration that follows iteration (t, c) of the nested loops
NextIndex(t, c, ntasks, ncells) ==
    IF c < ncells THEN <<t, c + 1>> ELSE <<t + 1, 1>>

\* the run loop entered without the run_started test
EntersLoop_always(started) == TRUE

\* whether the run loop is entered when the script reaches line 127
EntersLoop(started) == started

\* the key's list emptied on every step instead of only when it is missing
AppendSample_overwrite(hist, key, sample) ==
    [k \in DOMAIN hist \cup {key} |-> IF k = key THEN <<sample>> ELSE hist[k]]

\* history after a step's sample: the key gets an empty list if it has none,
\* and the sample is appended
AppendSample(hist, key, sample) ==
    [k \in DOMAIN hist \cup {key} |->
        IF k = key
        THEN Append(IF key \in DOMAIN hist THEN hist[key] ELSE <<>>, sample)
        ELSE hist[k]]

\* the sidebar is read (lines 72-106); then the Start branch, the Stop
\* branch, and the run_started test that leads into the run loop.  btn is the
\* button that caused the execution ("start", "stop") or "none" for any other
\* interaction.  An execution that is still in its run loop is abandoned.
Rerun(btn, cfg) ==
    LET n == cfg[1]
        types == cfg[2]
        sel == cfg[3]
        inputs == TaskInputs(sel, n, types, cfg[4])
    IN
    /\ runs < MaxRuns
    /\ runs' = runs + 1
    /\ num_cells' = n
    /\ cell_types' = types
    /\ selected_tasks' = sel
    /\ task_inputs' = inputs
    /\ setpoints' = cfg[4]
    /\ start_btn' = (btn = "start")
    /\ stop_btn' = (btn = "stop")
    /\ run_log' = <<>>
    /\ UNCHANGED cellvars
    /\ CASE btn = "start" /\ sel = <<>> ->
              \* selected_tasks[0] raises IndexError in the first iteration
              \* of the cell loop, after the session was cleared
              /\ run_started' = TRUE
              /\ elapsed' = 0
              /\ cells_data' = EmptyDict
              /\ task_timings' = EmptyDict
              /\ history' = EmptyDict
              /\ progress_count' = 0
              /\ pc' = "error" /\ t_idx' = 0 /\ c_idx' = 0
         [] btn = "start" /\ sel # <<>> ->
              \E temps \in [1..n -> StartTemps] :
                /\ run_started' = TRUE
                /\ elapsed' = 0
                /\ cells_data' = StartCells(n, types, sel, inputs, temps)
                /\ task_timings' = [k \in ConfigKeys(n, types) |-> <<>>]
                /\ history' = EmptyDict
                /\ progress_count' = 0
                /\ pc' = "loop" /\ t_idx' = 1 /\ c_idx' = 1
         [] btn = "stop" ->
              /\ run_started' = FALSE
              /\ UNCHANGED <<cells_data, elapsed, task_timings, history,
                             progress_count>>
              /\ pc' = "idle" /\ t_idx' = 0 /\ c_idx' = 0
         [] OTHER ->
              /\ UNCHANGED session
              /\ IF ~EntersLoop(run_started)
                 THEN pc' = "idle" /\ t_idx' = 0 /\ c_idx' = 0
                 ELSE IF LoopEntered(sel, cells_data)
                 THEN pc' = "loop" /\ t_idx' = 1 /\ c_idx' = 1
                 ELSE pc' = "done" /\ t_idx' = 0 /\ c_idx' = 0

\* one iteration of the run loop (lines 141-165): the setpoints are looked
\* up, the task is applied, the timing record and the history sample are
\* appended, progress_count is incremented and the progress bar is set.  The
\* st.* calls that follow are where a pending re-execution takes over.
Step ==
    /\ pc = "loop"
    /\ progress_count < MaxProgress
    /\ LET task == selected_tasks[t_idx]
           key == KeyAt(c_idx)
           total == Len(selected_tasks) * num_cells
       IN  IF key \notin DOMAIN task_inputs[task].voltage
           THEN \* KeyError at line 141: the cell is not one of the sidebar's
                /\ pc' = "error"
                /\ UNCHANGED <<session, t_idx, c_idx, run_log>>
           ELSE \E u \in StepDraws(task) :
                LET user_v == task_inputs[task].voltage[key]
                    user_c == task_inputs[task].current[key]
                    cell_data == process_task_on_cell(task, cells_data[key],
                                                      user_v, user_c, u)
                    old_hist == IF key \in DOMAIN history THEN history[key]
                                ELSE <<>>
                    sample == [ task |-> task, time |-> elapsed + 1,
                                power |-> cell_data.voltage * cell_data.current,
                                voltage |-> cell_data.voltage,
                                current |-> cell_data.current ]
                    nxt == NextIndex(t_idx, c_idx, Len(selected_tasks), NumKeys)
                IN  /\ cells_data' = [cells_data EXCEPT ![key] = cell_data]
                    /\ task_timings' =
                         [task_timings EXCEPT ![key] = Append(@, [Task |-> task])]
                    /\ history' = AppendSample(history, key, sample)
                    /\ elapsed' = elapsed + 1
                    /\ progress_count' = progress_count + 1
                    /\ run_log' = Append(run_log,
                                     [ t |-> t_idx, c |-> c_idx, key |-> key,
                                       n |-> Len(old_hist) + 1 ])
                    /\ UNCHANGED run_started
                    /\ IF progress_count + 1 > total
                       THEN \* st.progress rejects a value above 1.0
                            pc' = "error" /\ UNCHANGED <<t_idx, c_idx>>
                       ELSE IF nxt[1] \in 1..Len(selected_tasks)
                               /\ nxt[2] \in 1..NumKeys
                       THEN pc' = "loop" /\ t_idx' = nxt[1] /\ c_idx' = nxt[2]
                       ELSE pc' = "done" /\ t_idx' = 0 /\ c_idx' = 0
    /\ UNCHANGED <<widgets, runs, cellvars>>

\* s with its i-th element removed
Without(s, i) == [j \in 1..(Len(s) - 1) |-> IF j < i THEN s[j] ELSE s[j + 1]]

\* the sidebar as the last script execution read it
Current == <<num_cells, cell_types, selected_tasks, setpoints>>

\* one interaction with the sidebar changes one widget: the type of one cell,
\* the number of cells by one (a new cell's selectbox shows its first
\* option), one task added to or removed from the multiselect, or the
\* setpoints
Edits ==
    ( {<<num_cells, [cell_types EXCEPT ![i] = ct], selected_tasks, setpoints>> :
          i \in 1..num_cells, ct \in CellTypes}
      \cup {<<num_cells + 1, Append(cell_types, "LFP"), selected_tasks,
              setpoints>> : x \in {1} \cap 1..(MaxCells - num_cells)}
      \cup {<<num_cells - 1, SubSeq(cell_types, 1, num_cells - 1),
              selected_tasks, setpoints>> : x \in {1} \cap 1..(num_cells - 1)}
      \cup {<<num_cells, cell_types, Append(selected_tasks, t), setpoints>> :
              t \in IF Len(selected_tasks) < MaxTasks
                    THEN Tasks \ {selected_tasks[i] : i \in DOMAIN selected_tasks}
                    ELSE {}}
      \cup {<<num_cells, cell_types, Without(selected_tasks, i), setpoints>> :
              i \in DOMAIN selected_tasks}
      \cup {<<num_cells, cell_types, selected_tasks, p>> : p \in Profiles} )
    \ {Current}

\* the session state of lines 10-21, with the sidebar showing cfg
SessionInit(cfg) ==
    /\ run_started = FALSE
    /\ cells_data = EmptyDict
    /\ task_timings = EmptyDict
    /\ history = EmptyDict
    /\ progress_count = 0
    /\ elapsed = 0
    /\ num_cells = cfg[1]
    /\ cell_types = cfg[2]
    /\ selected_tasks = cfg[3]
    /\ task_inputs = TaskInputs(cfg[3], cfg[1], cfg[2], cfg[4])
    /\ setpoints = cfg[4]
    /\ start_btn = FALSE
    /\ stop_btn = FALSE
    /\ pc = "idle" /\ t_idx = 0 /\ c_idx = 0
    /\ run_log = <<>>
    /\ runs = 0

\* the cell the task-simulator specification leaves alone while the script
\* is the specification being checked
IdleCell == get_cell_data("LFP", DefaultV("LFP"), DefaultC("CHARGE"), 2500)

Init ==
    /\ \E cfg \in InitConfigs : SessionInit(cfg)
    /\ cell = IdleCell
    /\ last_task = "NONE"

\* Start pressed
StartClick == Rerun("start", Current)
\* Stop pressed
StopClick == Rerun("stop", Current)
\* a sidebar widget edited
WidgetEdit == \E cfg \in Edits : Rerun("none", cfg)
\* a re-execution that changes no widget (the Rerun command of the app)
Refresh == Rerun("none", Current)

Next ==
    \/ StartClick
    \/ StopClick
    \/ WidgetEdit
    \/ Refresh
    \/ Step

Spec == Init /\ [][Next]_vars

\* ------------------------------------------------------------------------
\* The task simulator on its own: one cell, any task after any task
\* ------------------------------------------------------------------------
\* setpoints the number inputs accept: their lowest and highest value, and
\* one in between whose products need rounding
CellSetV == {WidgetMinV, 333, WidgetMaxV}
CellSetC == {WidgetMinC, 125, WidgetMaxC}

CellInit ==
    /\ SessionInit(<<1, <<"LFP">>, <<>>, "default">>)
    /\ \E ct \in CellTypes, v \in CellSetV, c \in CellSetC, t \in InitTemps :
         cell = get_cell_data(ct, v, c, t)
    /\ last_task = "NONE"

\* process_task_on_cell(task, cell, uv, uc) with draw u; the model follows
\* the temperature inside MinTemp..MaxTemp
Apply(task) ==
    \E uv \in CellSetV, uc \in CellSetC, u \in Draws(task) :
        LET cell_data == process_task_on_cell(task, cell, uv, uc, u)
        IN  /\ cell_data.temp \in MinTemp..MaxTemp \/ task = "IDLE"
            /\ cell' = cell_data
            /\ last_task' = task
            /\ UNCHANGED appvars

Charge == Apply("CHARGE")
Discharge == Apply("DISCHARGE")
Idle == Apply("IDLE")
Optimizing == Apply("OPTIMIZING")

CellNext ==
    \/ Charge
    \/ Discharge
    \/ Idle
    \/ Optimizing

SpecCell == CellInit /\ [][CellNext]_vars

\* ------------------------------------------------------------------------
\* Properties of the task simulator (checked under SpecCell)
\* ------------------------------------------------------------------------
Clamped == {"CHARGE", "DISCHARGE"}
Recomputing == {"CHARGE", "DISCHARGE", "OPTIMIZING"}

\* C1 as stated: after CHARGE or DISCHARGE the cell's voltage lies within
\* min_voltage..max_voltage, both bounds for both tasks.
C1_VoltageWithinBounds ==
    last_task \in Clamped =>
        cell.min_voltage <= cell.voltage /\ cell.voltage <= cell.max_voltage

\* C1 as amended: after CHARGE the voltage is at most max_voltage, after
\* DISCHARGE it is at least min_voltage; each task clamps one side only.
C1_OneSidedClamp ==
    /\ last_task = "CHARGE" => cell.voltage <= cell.max_voltage
    /\ last_task = "DISCHARGE" => cell.voltage >= cell.min_voltage

\* a CHARGE from the lowest setpoint has left the voltage under min_voltage
C1_Witness == last_task = "CHARGE" /\ cell.voltage < cell.min_voltage

\* C6: an IDLE application leaves voltage, capacity, chemistry, min_voltage
\* and max_voltage as they were, sets the current to 0 and yields a
\* temperature of at least 20.0, whatever the cell and the setpoints.
C6_IdleFrame ==
    [][last_task' = "IDLE" =>
          /\ cell'.voltage = cell.voltage
          /\ cell'.capacity = cell.capacity
          /\ cell'.type = cell.type
          /\ cell'.min_voltage = cell.min_voltage
          /\ cell'.max_voltage = cell.max_voltage
          /\ cell'.current = 0
          /\ cell'.temp >= TempFloor]_vars

\* an idle cell that keeps the capacity an earlier task gave it
C6_Witness ==
    /\ last_task = "IDLE"
    /\ cell.current = 0
    /\ cell.capacity > 0
    /\ cell.voltage > cell.max_voltage

\* C7 as stated: from any reachable cell state an IDLE application never
\* increases the temperature.
C7_IdleNeverHeats == [][last_task' = "IDLE" => cell'.temp <= cell.temp]_vars

\* C7 as amended: IDLE yields a temperature of at least 20.0; from a
\* temperature above 20.0 it strictly decreases, from exactly 20.0 it stays,
\* and from below 20.0 (where OPTIMIZING can take it) it is raised to 20.0.
C7_IdleCoolsToFloor ==
    [][last_task' = "IDLE" =>
          /\ cell'.temp >= TempFloor
          /\ cell.temp > TempFloor => cell'.temp < cell.temp
          /\ cell.temp <= TempFloor => cell'.temp = TempFloor]_vars

\* an IDLE application has left the cell at the floor
C7_Witness == last_task = "IDLE" /\ cell.temp = TempFloor

\* C8: after CHARGE, DISCHARGE or OPTIMIZING the capacity is
\* voltage * |current| rounded to two decimals, of the voltage and current
\* the application set; IDLE leaves the capacity as it was.
C8_CapacityRecomputed ==
    [][/\ last_task' \in Recomputing =>
             cell'.capacity = Round2(cell'.voltage * Abs(cell'.current))
       /\ last_task' = "IDLE" => cell'.capacity = cell.capacity]_vars

\* a DISCHARGE whose product voltage * |current| was rounded up
C8_Witness ==
    /\ last_task = "DISCHARGE"
    /\ (cell.voltage * Abs(cell.current)) % 100 > 50
    /\ cell.capacity * 100 > cell.voltage * Abs(cell.current)

\* ------------------------------------------------------------------------
\* Properties of the script (checked under Spec)
\* ------------------------------------------------------------------------
HistoryOf(k) == IF k \in DOMAIN history THEN history[k] ELSE <<>>

\* the history sample a logged step appended
SampleOf(e) == history[e.key][e.n]

RECURSIVE SumLen(_, _)
SumLen(f, S) ==
    IF S = {} THEN 0
    ELSE LET k == CHOOSE x \in S : TRUE
         IN  Len(f[k]) + SumLen(f, S \ {k})

\* C2: the steps of one execution of the run loop are applied in
\* (task index, cell index) lexicographic order without a gap, each sample is
\* appended later than the samples of the steps before it, and the samples
\* a cell got name the tasks of the selected sequence in its order.
C2_LexOrder ==
    /\ \A j \in DOMAIN run_log :
         LET e == run_log[j]
         IN  /\ e.t = ((j - 1) \div NumKeys) + 1
             /\ e.c = ((j - 1) % NumKeys) + 1
             /\ e.key = KeyAt(e.c)
             /\ SampleOf(e).task = selected_tasks[e.t]
    /\ \A j, k \in DOMAIN run_log :
         j < k =>
            /\ \/ run_log[j].t < run_log[k].t
               \/ run_log[j].t = run_log[k].t /\ run_log[j].c < run_log[k].c
            /\ SampleOf(run_log[j]).time < SampleOf(run_log[k]).time
            /\ run_log[j].key = run_log[k].key => run_log[j].n < run_log[k].n

\* a run of two tasks over two cells that applied all four steps
C2_Witness ==
    /\ pc = "done"
    /\ Len(run_log) = 4
    /\ NumKeys = 2
    /\ Len(selected_tasks) = 2

\* C3: Stop leaves the cell state, the task records and the history samples
\* as they are, and while the run is stopped no script execution enters the
\* run loop or changes them: no later step of the run is applied.
C3_StopHalts ==
    [][~run_started' =>
          /\ UNCHANGED <<cells_data, task_timings, history, progress_count>>
          /\ pc' # "loop"]_vars

\* Stop came after the first step of a run over two cells, and a later
\* script execution has left the one sample there is
C3_Witness ==
    /\ ~run_started
    /\ ~stop_btn
    /\ runs = 3
    /\ NumKeys = 2
    /\ progress_count = 1

\* C4 as stated: right after Start is handled cells_data holds exactly one
\* freshly created cell per configured cell, history is empty, every
\* task_timings list is empty and progress_count is 0.
C4_StartResets ==
    (start_btn /\ run_log = <<>>) =>
        /\ DOMAIN cells_data = ConfigKeys(num_cells, cell_types)
        /\ \A k \in DOMAIN cells_data :
             \E temp \in StartTemps :
                cells_data[k] =
                    get_cell_data(k[2],
                                  task_inputs[selected_tasks[1]].voltage[k],
                                  task_inputs[selected_tasks[1]].current[k],
                                  temp)
        /\ history = EmptyDict
        /\ DOMAIN task_timings = DOMAIN cells_data
        /\ \A k \in DOMAIN task_timings : task_timings[k] = <<>>
        /\ progress_count = 0

\* C5 as stated: Start with no task selected raises no error, creates the
\* configured cells and the run performs zero steps.
C5_EmptyStartCompletes ==
    (start_btn /\ selected_tasks = <<>>) =>
        /\ pc = "done"
        /\ DOMAIN cells_data = ConfigKeys(num_cells, cell_types)
        /\ progress_count = 0

\* C9 as stated: the progress count a step hands to the progress bar never
\* exceeds total_steps = len(selected_tasks) * num_cells.
C9_ProgressWithinTotal ==
    run_log # <<>> => progress_count <= Len(selected_tasks) * num_cells

\* C10: every cell has as many history samples as timing records, the i-th
\* sample and the i-th record name the same task, and progress_count is the
\* number of history samples of all cells.
C10_HistoryMatchesTimings ==
    /\ DOMAIN task_timings = DOMAIN cells_data
    /\ DOMAIN history \subseteq DOMAIN cells_data
    /\ \A k \in DOMAIN cells_data :
         /\ Len(HistoryOf(k)) = Len(task_timings[k])
         /\ \A i \in DOMAIN task_timings[k] :
               HistoryOf(k)[i].task = task_timings[k][i].Task
    /\ progress_count = SumLen(history, DOMAIN history)

\* two cells stepped, one of them twice with two different tasks
C10_Witness ==
    /\ progress_count = 3
    /\ \E k \in DOMAIN history :
         /\ Len(history[k]) = 2
         /\ history[k][1].task # history[k][2].task

====
